---- MODULE Spec2Model ----
(***************************************************************************)
(* Model of the multi-filter box plot page of 01_posbolt2Excel.py.         *)
(*                                                                         *)
(* One behaviour step is one Streamlit script run of                       *)
(* process_graph_settings, triggered by one user gesture (a button, a      *)
(* checkbox, a slider), together with the rerun that st.rerun() starts.    *)
(* The state is st.session_state (active_filters, filter_counter) plus     *)
(* what the run put on the page.                                           *)
(*                                                                         *)
(* Data encoding.  A DataFrame is a sequence of rows; a row is a record    *)
(* with its pandas index label (idx) and one field per column.  Numeric    *)
(* cells are naturals.  Text cells are naturals too: code k stands for     *)
(* the k-th label in lexicographic order, so that sorted() is the order    *)
(* of the codes.  A missing cell (NaN / None) is the value NaN, and every  *)
(* comparison with it is made through Ge, Le and FloatNe, which follow     *)
(* IEEE-754: an ordered comparison with NaN is False, != with NaN is True. *)
(*                                                                         *)
(* Widgets.  A widget the user did not touch in a run returns the value=   *)
(* argument it is given; a run is triggered by exactly one gesture.  A     *)
(* slider returns a pair lo <= hi inside [min_value, max_value].           *)
(***************************************************************************)
EXTENDS Integers, Sequences, FiniteSets, TLC

VARIABLES
    df,              \* the DataFrame handed to process_graph_settings
    active_filters,  \* st.session_state.active_filters
    filter_counter,  \* st.session_state.filter_counter
    filtered_df,     \* the frame the last run passed to display_data_info
    view,            \* what the last run showed: "info", "plot" or "warning"
    event,           \* history: the gesture that triggered the last run
    created,         \* history: per column, the domain its filter was created with
    initialized,     \* whether initialize_session_state has run
    no_column_info,  \* whether the last run showed the "every column is filtered" note
    calls,           \* the steps of lines 97-111 that the last run invoked
    fig,             \* what create_boxplot made in the last run (kept in PlotSpec)
    stats            \* what show_statistics made in the last run (kept in PlotSpec)

vars == <<df, active_filters, filter_counter, filtered_df, view, event, created,
          initialized, no_column_info, calls, fig, stats>>

-----------------------------------------------------------------------------
(* Bounds *)

MaxFilterCounter == 3

-----------------------------------------------------------------------------
(* Values and comparisons *)

NaN == -1

Ge(a, b) == a # NaN /\ b # NaN /\ a >= b
Le(a, b) == a # NaN /\ b # NaN /\ a <= b
FloatNe(a, b) == a = NaN \/ b = NaN \/ a # b

Range(s) == {s[k] : k \in DOMAIN s}

SetMin(S) == CHOOSE x \in S : \A y \in S : x <= y
SetMax(S) == CHOOSE x \in S : \A y \in S : x >= y

RECURSIVE sorted(_)
sorted(S) == IF S = {} THEN <<>> ELSE <<SetMin(S)>> \o sorted(S \ {SetMin(S)})

-----------------------------------------------------------------------------
(* Datasets *)

Columns == <<"g", "h", "v", "t">>

Row(i, g, h, v) == [idx |-> i, g |-> g, h |-> h, v |-> v]

Table1 == << Row(0, 1, 1, 1), Row(1, 1, 2, 2), Row(2, 2, 1, 3), Row(3, 2, 2, NaN) >>
Table2 == << Row(0, 1, 1, 2), Row(1, 2, 1, 2), Row(2, NaN, 2, 2) >>
Table3 == << Row(0, 1, 1, 1), Row(1, 2, NaN, 3), Row(2, 2, 1, 3) >>

\* a sheet whose v column holds text
Table4 == << Row(0, 1, 1, 1), Row(1, 2, 1, 2) >>

Tables == {Table1, Table2, Table3, Table4}

\* df[c].dtype: g is text, h is text except in Table2 where it is boolean,
\* v is floating point except in Table4 where it is text, t is a timestamp
dtype(c) ==
    CASE c = "g" -> "object"
      [] c = "h" -> IF df = Table2 THEN "bool" ELSE "object"
      [] c = "v" -> IF df = Table4 THEN "object" ELSE "float64"
      [] c = "t" -> "datetime64[ns]"

\* df.select_dtypes(include=[np.number]).columns.tolist()
numeric_columns ==
    SelectSeq(Columns, LAMBDA c : dtype(c) \in {"int64", "float64"})

\* df.select_dtypes(include=['object', 'category']).columns.tolist()
categorical_columns ==
    SelectSeq(Columns, LAMBDA c : dtype(c) \in {"object", "category"})

\* faulty variant: the run goes on without a numeric column
no_numeric_columns_ignored == FALSE

\* if not numeric_columns: st.error(...); return
no_numeric_columns == numeric_columns = <<>>

-----------------------------------------------------------------------------
(* Column helpers of pandas *)

\* Series.dropna().unique().tolist(), sorted
unique_values(frame, column) ==
    sorted({frame[k][column] : k \in DOMAIN frame} \ {NaN})

\* float(Series.min()), float(Series.max()): missing cells are skipped, and
\* the result over no cell at all is NaN
series_min(frame, column) ==
    LET S == {frame[k][column] : k \in DOMAIN frame} \ {NaN}
    IN  IF S = {} THEN NaN ELSE SetMin(S)

series_max(frame, column) ==
    LET S == {frame[k][column] : k \in DOMAIN frame} \ {NaN}
    IN  IF S = {} THEN NaN ELSE SetMax(S)

isin(x, values) == \E k \in DOMAIN values : values[k] = x

-----------------------------------------------------------------------------
(* Chain evaluation *)

\* faulty variant: the upper bound of the range is exclusive
current_filter_step_open(filtered, filter_info) ==
    IF filter_info.type = "categorical"
    THEN IF filter_info.selected_values # <<>>
         THEN SelectSeq(filtered,
                  LAMBDA r : isin(r[filter_info.column], filter_info.selected_values))
         ELSE SubSeq(filtered, 1, 0)
    ELSE SelectSeq(filtered,
             LAMBDA r : /\ Ge(r[filter_info.column], filter_info.selected_range[1])
                        /\ Le(r[filter_info.column], filter_info.selected_range[2])
                        /\ r[filter_info.column] # filter_info.selected_range[2])

current_filter_step(filtered, filter_info) ==
    IF filter_info.type = "categorical"
    THEN IF filter_info.selected_values # <<>>
         THEN SelectSeq(filtered,
                  LAMBDA r : isin(r[filter_info.column], filter_info.selected_values))
         ELSE SubSeq(filtered, 1, 0)
    ELSE SelectSeq(filtered,
             LAMBDA r : /\ Ge(r[filter_info.column], filter_info.selected_range[1])
                        /\ Le(r[filter_info.column], filter_info.selected_range[2]))

RECURSIVE current_filter_loop(_, _, _)
current_filter_loop(filtered, filters, k) ==
    IF k > Len(filters) THEN filtered
    ELSE current_filter_loop(current_filter_step(filtered, filters[k]), filters, k + 1)

\* apply_current_filters(df), reading st.session_state.active_filters
apply_current_filters(frame, session_filters) ==
    current_filter_loop(frame, session_filters, 1)

\* faulty variant: an empty selection lets every row through
data_filter_step_pass_empty(filtered, filter_info) ==
    IF filter_info.type = "categorical"
    THEN IF filter_info.selected_values # <<>>
         THEN SelectSeq(filtered,
                  LAMBDA r : isin(r[filter_info.column], filter_info.selected_values))
         ELSE filtered
    ELSE SelectSeq(filtered,
             LAMBDA r : /\ Ge(r[filter_info.column], filter_info.selected_range[1])
                        /\ Le(r[filter_info.column], filter_info.selected_range[2]))

\* faulty variant: the bounds of the range are exclusive
data_filter_step_strict(filtered, filter_info) ==
    IF filter_info.type = "categorical"
    THEN IF filter_info.selected_values # <<>>
         THEN SelectSeq(filtered,
                  LAMBDA r : isin(r[filter_info.column], filter_info.selected_values))
         ELSE SubSeq(filtered, 1, 0)
    ELSE SelectSeq(filtered,
             LAMBDA r : /\ Ge(r[filter_info.column], filter_info.selected_range[1])
                        /\ r[filter_info.column] # filter_info.selected_range[1]
                        /\ Le(r[filter_info.column], filter_info.selected_range[2])
                        /\ r[filter_info.column] # filter_info.selected_range[2])

\* faulty variant: the empty frame is taken by position as iloc[1:]
data_filter_step_tail(filtered, filter_info) ==
    IF filter_info.type = "categorical"
    THEN IF filter_info.selected_values # <<>>
         THEN SelectSeq(filtered,
                  LAMBDA r : isin(r[filter_info.column], filter_info.selected_values))
         ELSE SubSeq(filtered, 2, Len(filtered))
    ELSE SelectSeq(filtered,
             LAMBDA r : /\ Ge(r[filter_info.column], filter_info.selected_range[1])
                        /\ Le(r[filter_info.column], filter_info.selected_range[2]))

\* faulty variant: a categorical filter without any value to offer is
\* passed over
data_filter_step_skip_dead(filtered, filter_info) ==
    IF filter_info.type = "categorical"
    THEN IF filter_info.selected_values # <<>>
         THEN SelectSeq(filtered,
                  LAMBDA r : isin(r[filter_info.column], filter_info.selected_values))
         ELSE IF filter_info.all_values = <<>> THEN filtered
         ELSE SubSeq(filtered, 1, 0)
    ELSE SelectSeq(filtered,
             LAMBDA r : /\ Ge(r[filter_info.column], filter_info.selected_range[1])
                        /\ Le(r[filter_info.column], filter_info.selected_range[2]))

data_filter_step(filtered, filter_info) ==
    IF filter_info.type = "categorical"
    THEN IF filter_info.selected_values # <<>>
         THEN SelectSeq(filtered,
                  LAMBDA r : isin(r[filter_info.column], filter_info.selected_values))
         ELSE SubSeq(filtered, 1, 0)
    ELSE SelectSeq(filtered,
             LAMBDA r : /\ Ge(r[filter_info.column], filter_info.selected_range[1])
                        /\ Le(r[filter_info.column], filter_info.selected_range[2]))

RECURSIVE data_filter_loop(_, _, _)
data_filter_loop(filtered, filters_list, k) ==
    IF k > Len(filters_list) THEN filtered
    ELSE data_filter_loop(data_filter_step(filtered, filters_list[k]), filters_list, k + 1)

\* faulty variant: every mask is taken on the dataset instead of the frame
\* narrowed so far, so the last filter alone decides
apply_filters_to_data_last(frame, filters_list) ==
    IF filters_list = <<>> THEN frame
    ELSE data_filter_step(frame, filters_list[Len(filters_list)])

apply_filters_to_data(frame, filters_list) ==
    data_filter_loop(frame, filters_list, 1)

-----------------------------------------------------------------------------
(* Adding a filter *)

\* faulty variant: the domain is read from the raw frame
new_filter_info_raw(frame, session_filters, column) ==
    IF dtype(column) \in {"object", "category"}
    THEN [column |-> column,
          type |-> "categorical",
          all_values |-> unique_values(frame, column),
          selected_values |-> unique_values(frame, column)]
    ELSE [column |-> column,
          type |-> "numeric",
          min_val |-> series_min(frame, column),
          max_val |-> series_max(frame, column),
          selected_range |-> <<series_min(frame, column), series_max(frame, column)>>]

\* faulty variant: the range of a numeric filter starts at the bounds of the
\* raw column
new_filter_info_full_range(frame, session_filters, column) ==
    LET filtered == apply_current_filters(frame, session_filters)
    IN  IF dtype(column) \in {"object", "category"}
        THEN [column |-> column,
              type |-> "categorical",
              all_values |-> unique_values(filtered, column),
              selected_values |-> unique_values(filtered, column)]
        ELSE [column |-> column,
              type |-> "numeric",
              min_val |-> series_min(filtered, column),
              max_val |-> series_max(filtered, column),
              selected_range |-> <<series_min(frame, column),
                                   series_max(frame, column)>>]

new_filter_info(frame, session_filters, column) ==
    LET filtered == apply_current_filters(frame, session_filters)
    IN  IF dtype(column) \in {"object", "category"}
        THEN [column |-> column,
              type |-> "categorical",
              all_values |-> unique_values(filtered, column),
              selected_values |-> unique_values(filtered, column)]
        ELSE [column |-> column,
              type |-> "numeric",
              min_val |-> series_min(filtered, column),
              max_val |-> series_max(filtered, column),
              selected_range |-> <<series_min(filtered, column),
                                   series_max(filtered, column)>>]

\* faulty variant: the new filter is put in front of the chain
add_new_filter_front(frame, session_filters, column) ==
    <<new_filter_info(frame, session_filters, column)>> \o session_filters

add_new_filter(frame, session_filters, column) ==
    Append(session_filters, new_filter_info(frame, session_filters, column))

applied_columns(session_filters) ==
    {session_filters[k].column : k \in DOMAIN session_filters}

\* faulty variant: only the column of the newest filter is taken off the offer
available_columns_newest(session_filters) ==
    {c \in Range(Columns) :
        /\ dtype(c) \in {"object", "category", "int64", "float64"}
        /\ session_filters # <<>> => c # session_filters[Len(session_filters)].column}

\* faulty variant: columns that already carry a filter stay on offer
available_columns_any(session_filters) ==
    {c \in Range(Columns) : dtype(c) \in {"object", "category", "int64", "float64"}}

available_columns(session_filters) ==
    {c \in Range(Columns) :
        /\ dtype(c) \in {"object", "category", "int64", "float64"}
        /\ c \notin applied_columns(session_filters)}

\* faulty variant: the filters left after the removal are built anew
pop_rebuild(session_filters, i) ==
    LET rest == SubSeq(session_filters, 1, i - 1)
                    \o SubSeq(session_filters, i + 1, Len(session_filters))
    IN  [k \in DOMAIN rest |-> new_filter_info(df, SubSeq(rest, 1, k - 1), rest[k].column)]

\* list.pop(i), with i counted from 1
pop(session_filters, i) ==
    SubSeq(session_filters, 1, i - 1) \o SubSeq(session_filters, i + 1, Len(session_filters))

-----------------------------------------------------------------------------
(* The filter controls *)

\* the loop over unique_values: values[k..] are still to be visited, checked
\* is the set of values whose checkbox returned True
RECURSIVE checkbox_loop(_, _, _, _)
checkbox_loop(selected_values, values, k, checked) ==
    IF k > Len(values) THEN selected_values
    ELSE LET value == values[k]
             new_state == value \in checked
         IN  IF new_state /\ ~isin(value, selected_values)
             THEN checkbox_loop(Append(selected_values, value), values, k + 1, checked)
             ELSE IF ~new_state /\ isin(value, selected_values)
             THEN checkbox_loop(SelectSeq(selected_values, LAMBDA x : x # value),
                                values, k + 1, checked)
             ELSE checkbox_loop(selected_values, values, k + 1, checked)

\* one iteration of the loop of setup_filter_controls with no button pressed;
\* reading is what the widgets of this filter returned
filter_control(filter_info, reading) ==
    IF filter_info.type = "categorical"
    THEN [filter_info EXCEPT !.selected_values =
              checkbox_loop(filter_info.selected_values, filter_info.all_values, 1, reading)]
    ELSE IF FloatNe(filter_info.min_val, filter_info.max_val)
         THEN [filter_info EXCEPT !.selected_range = reading]
         ELSE filter_info

\* value= of the widgets of a filter
widget_default(filter_info) ==
    IF filter_info.type = "categorical"
    THEN Range(filter_info.selected_values)
    ELSE filter_info.selected_range

setup_filter_controls(session_filters, readings) ==
    [i \in DOMAIN session_filters |-> filter_control(session_filters[i], readings[i])]

defaults(session_filters) ==
    [i \in DOMAIN session_filters |-> widget_default(session_filters[i])]

\* a script run in which no widget of the filter controls was touched
untouched_controls(session_filters) ==
    setup_filter_controls(session_filters, defaults(session_filters))

\* the iterations of the loop before filter i, which a button of filter i
\* cuts short with st.rerun()
controls_before(session_filters, i) ==
    [k \in DOMAIN session_filters |->
        IF k < i
        THEN filter_control(session_filters[k], widget_default(session_filters[k]))
        ELSE session_filters[k]]

\* faulty variant: select-all takes the values of the raw column
select_all_raw(session_filters, i) ==
    [session_filters EXCEPT
        ![i].selected_values = unique_values(df, session_filters[i].column)]

select_all(session_filters, i) ==
    [session_filters EXCEPT ![i].selected_values = session_filters[i].all_values]

\* faulty variant: deselect-all empties the domain as well
deselect_all_domain(session_filters, i) ==
    [session_filters EXCEPT ![i].selected_values = <<>>, ![i].all_values = <<>>]

deselect_all(session_filters, i) ==
    [session_filters EXCEPT ![i].selected_values = <<>>]

\* the positions a slider between min_value and max_value can return
slider_values(filter_info) ==
    IF filter_info.min_val = NaN \/ filter_info.max_val = NaN
    THEN {}
    ELSE {p \in (filter_info.min_val .. filter_info.max_val)
                    \X (filter_info.min_val .. filter_info.max_val) : p[1] <= p[2]}

Domain(filter_info) ==
    IF filter_info.type = "categorical"
    THEN <<filter_info.all_values>>
    ELSE <<filter_info.min_val, filter_info.max_val>>

-----------------------------------------------------------------------------
(* The graph settings *)

NoColumn == "none"   \* the entry "없음" of the group and colour select boxes

\* what get_current_settings can return: the graph_* keys hold what the
\* widgets of setup_graph_controls returned in this run
Settings ==
    [y_column : Range(numeric_columns),
     x_column : {NoColumn} \cup Range(categorical_columns),
     color_column : {NoColumn} \cup Range(categorical_columns),
     show_points : BOOLEAN,
     show_mean : BOOLEAN]

-----------------------------------------------------------------------------
(* The box plot.  A Series is a sequence of points [idx, val].  Quartiles  *)
(* are kept as four times their value and fences as eight times theirs, so *)
(* that the linear interpolation and the factor 1.5 stay in the integers.  *)

RECURSIVE flatten(_)
flatten(ss) == IF ss = <<>> THEN <<>> ELSE Head(ss) \o flatten(Tail(ss))

\* df[[...]].dropna(): the selected columns, rows with a missing cell dropped
plot_columns(s) ==
    IF s.x_column # NoColumn /\ s.color_column # NoColumn
    THEN {s.y_column, s.x_column, s.color_column}
    ELSE IF s.x_column # NoColumn
    THEN {s.y_column, s.x_column}
    ELSE {s.y_column}

plot_frame(frame, s) ==
    LET kept == SelectSeq(frame, LAMBDA r : \A c \in plot_columns(s) : r[c] # NaN)
    IN  [k \in DOMAIN kept |-> [c \in plot_columns(s) \cup {"idx"} |-> kept[k][c]]]

\* frame[column] as a Series
series(frame, column) ==
    [k \in DOMAIN frame |-> [idx |-> frame[k].idx, val |-> frame[k][column]]]

values(data) == [k \in DOMAIN data |-> data[k].val]

\* the values of a Series in ascending order
RECURSIVE sort_values(_)
sort_values(vs) ==
    IF vs = <<>> THEN <<>>
    ELSE LET m == SetMin(Range(vs))
             k == CHOOSE j \in DOMAIN vs : vs[j] = m
         IN  <<m>> \o sort_values(SubSeq(vs, 1, k - 1) \o SubSeq(vs, k + 1, Len(vs)))

\* faulty variant: the percentile is the sample below the position
quantile_lower(data, quarters) ==
    LET vs == sort_values(values(data))
        below == ((Len(vs) - 1) * quarters) \div 4
    IN  4 * vs[below + 1]

\* four times Series.quantile(quarters / 4), linear interpolation between
\* the two samples around position (n - 1) * quarters / 4
quantile(data, quarters) ==
    LET vs == sort_values(values(data))
        below == ((Len(vs) - 1) * quarters) \div 4
        part == ((Len(vs) - 1) * quarters) % 4
    IN  IF part = 0
        THEN 4 * vs[below + 1]
        ELSE 4 * vs[below + 1] + part * (vs[below + 2] - vs[below + 1])

\* faulty variant: a sample on the upper fence counts as an outlier too
iqr_outliers_closed(data) ==
    LET Q1 == quantile(data, 1)
        Q3 == quantile(data, 3)
        IQR == Q3 - Q1
        lower_bound == 2 * Q1 - 3 * IQR
        upper_bound == 2 * Q3 + 3 * IQR
    IN  [Q1 |-> Q1, Q3 |-> Q3, lower_bound |-> lower_bound, upper_bound |-> upper_bound,
         outliers |-> SelectSeq(data, LAMBDA p : 8 * p.val < lower_bound
                                                  \/ 8 * p.val >= upper_bound),
         normal_data |-> SelectSeq(data, LAMBDA p : 8 * p.val >= lower_bound
                                                     /\ 8 * p.val <= upper_bound)]

\* the IQR method, written three times in create_boxplot with the same text
\* (whole column, one colour cell of a group, one group)
iqr_outliers(data) ==
    LET Q1 == quantile(data, 1)
        Q3 == quantile(data, 3)
        IQR == Q3 - Q1
        lower_bound == 2 * Q1 - 3 * IQR
        upper_bound == 2 * Q3 + 3 * IQR
    IN  [Q1 |-> Q1, Q3 |-> Q3, lower_bound |-> lower_bound, upper_bound |-> upper_bound,
         outliers |-> SelectSeq(data, LAMBDA p : 8 * p.val < lower_bound
                                                  \/ 8 * p.val > upper_bound),
         normal_data |-> SelectSeq(data, LAMBDA p : 8 * p.val >= lower_bound
                                                     /\ 8 * p.val <= upper_bound)]

\* Series.mean(), kept as the sum and the number of the samples
mean(data) ==
    LET RECURSIVE total(_)
        total(vs) == IF vs = <<>> THEN 0 ELSE Head(vs) + total(Tail(vs))
    IN  [sum |-> total(values(data)), count |-> Len(data)]

\* px.colors.qualitative: Set1 has 9 colours, Set2 8, Set3 12, Pastel1 9,
\* Pastel2 8
qualitative(name, n) == [i \in 1 .. n |-> <<name, i>>]

EXTENDED_COLORS ==
    qualitative("Set1", 9) \o qualitative("Set2", 8) \o qualitative("Set3", 12)
        \o qualitative("Pastel1", 9) \o qualitative("Pastel2", 8)

\* go.Box / go.Scatter, with the arguments the properties speak of
Trace(role, x, data, color, showlegend, legendgroup) ==
    [role |-> role, x |-> x, y |-> data, color |-> color, showlegend |-> showlegend,
     legendgroup |-> legendgroup]

\* sorted(plot_df[x_column].unique())
plot_groups(plot_df, s) ==
    sorted({plot_df[k][s.x_column] : k \in DOMAIN plot_df})

\* the single box: x_column is "없음"
single_traces(plot_df, s) ==
    LET data == series(plot_df, s.y_column)
        split == iqr_outliers(data)
    IN  <<Trace("box", s.y_column, data, "black", FALSE, "")>>
        \o (IF s.show_points
            THEN <<Trace("normal", s.y_column, split.normal_data, "gray", TRUE, "")>>
                 \o (IF Len(split.outliers) > 0
                     THEN <<Trace("outliers", s.y_column, split.outliers, "yellow", TRUE, "")>>
                     ELSE <<>>)
            ELSE <<>>)

\* the boxes by group and colour
color_traces(plot_df, s) ==
    LET color_groups == sorted({plot_df[k][s.color_column] : k \in DOMAIN plot_df})
        color_map == [i \in DOMAIN color_groups |-> EXTENDED_COLORS[i]]
        groups == plot_groups(plot_df, s)
        color_data(i) == SelectSeq(plot_df, LAMBDA r : r[s.color_column] = color_groups[i])
        cell(i, j) ==
            LET group_color_data ==
                    series(SelectSeq(color_data(i), LAMBDA r : r[s.x_column] = groups[j]),
                           s.y_column)
                split == iqr_outliers(group_color_data)
            IN  IF Len(group_color_data) = 0 THEN <<>>
                ELSE (IF Len(split.normal_data) > 0
                      THEN <<Trace("normal", groups[j], split.normal_data,
                                   color_map[i], FALSE, <<color_groups[i], "normal">>)>>
                      ELSE <<>>)
                     \o (IF Len(split.outliers) > 0
                         THEN <<Trace("outliers", groups[j], split.outliers,
                                      "yellow", FALSE, <<color_groups[i], "outliers">>)>>
                         ELSE <<>>)
    IN  flatten([i \in DOMAIN color_groups |->
            <<Trace("box", values(series(color_data(i), s.x_column)),
                    series(color_data(i), s.y_column), color_map[i], TRUE,
                    <<color_groups[i]>>)>>
            \o (IF s.show_points
                THEN flatten([j \in DOMAIN groups |-> cell(i, j)])
                ELSE <<>>)])

\* faulty variant: one fence over the whole column serves every group
group_traces_one_fence(plot_df, s) ==
    LET groups == plot_groups(plot_df, s)
        group_data(i) ==
            series(SelectSeq(plot_df, LAMBDA r : r[s.x_column] = groups[i]), s.y_column)
        whole == iqr_outliers(series(plot_df, s.y_column))
        outliers(i) == SelectSeq(group_data(i),
                           LAMBDA p : 8 * p.val < whole.lower_bound
                                      \/ 8 * p.val > whole.upper_bound)
        normal_data(i) == SelectSeq(group_data(i),
                              LAMBDA p : 8 * p.val >= whole.lower_bound
                                         /\ 8 * p.val <= whole.upper_bound)
    IN  <<Trace("box", values(series(plot_df, s.x_column)),
                series(plot_df, s.y_column), "black", FALSE, "")>>
        \o (IF s.show_points
            THEN flatten([i \in DOMAIN groups |->
                    (IF Len(normal_data(i)) > 0
                     THEN <<Trace("normal", groups[i], normal_data(i), "gray", i = 1, "normal")>>
                     ELSE <<>>)
                    \o (IF Len(outliers(i)) > 0
                        THEN <<Trace("outliers", groups[i], outliers(i), "yellow", i = 1,
                                     "outliers")>>
                        ELSE <<>>)])
            ELSE <<>>)
        \o (IF s.show_mean
            THEN [i \in DOMAIN groups |->
                    Trace("mean", groups[i], <<mean(group_data(i))>>, "White", i = 1, "mean")]
            ELSE <<>>)

\* the boxes by group without a colour column
group_traces(plot_df, s) ==
    LET groups == plot_groups(plot_df, s)
        group_data(i) ==
            series(SelectSeq(plot_df, LAMBDA r : r[s.x_column] = groups[i]), s.y_column)
        split(i) == iqr_outliers(group_data(i))
    IN  <<Trace("box", values(series(plot_df, s.x_column)),
                series(plot_df, s.y_column), "black", FALSE, "")>>
        \o (IF s.show_points
            THEN flatten([i \in DOMAIN groups |->
                    (IF Len(split(i).normal_data) > 0
                     THEN <<Trace("normal", groups[i], split(i).normal_data, "gray", i = 1,
                                  "normal")>>
                     ELSE <<>>)
                    \o (IF Len(split(i).outliers) > 0
                        THEN <<Trace("outliers", groups[i], split(i).outliers,
                                     "yellow", i = 1, "outliers")>>
                        ELSE <<>>)])
            ELSE <<>>)
        \o (IF s.show_mean
            THEN [i \in DOMAIN groups |->
                    Trace("mean", groups[i], <<mean(group_data(i))>>, "White", i = 1, "mean")]
            ELSE <<>>)

\* colors = EXTENDED_COLORS[:len(color_groups)] is shorter than color_groups,
\* so colors[i] in the dict comprehension of color_map raises IndexError
palette_exhausted(plot_df, s) ==
    Cardinality({plot_df[k][s.color_column] : k \in DOMAIN plot_df}) > Len(EXTENDED_COLORS)

\* how create_boxplot ends: "no_data" is the st.error return on an empty
\* plot_df, "drawn" is st.plotly_chart, the others are the exception raised.
\* In the single box, show_mean reads group_data, a local name that no
\* statement of that branch has bound.  With the same column as group and
\* as colour, df[[y, x, x]] has two columns of that name, plot_df[x] is a
\* DataFrame and .unique() does not exist.
boxplot_outcome(frame, s) ==
    IF plot_frame(frame, s) = <<>> THEN "no_data"
    ELSE IF s.x_column = NoColumn
    THEN IF s.show_mean THEN "UnboundLocalError" ELSE "drawn"
    ELSE IF s.color_column = NoColumn THEN "drawn"
    ELSE IF s.color_column = s.x_column THEN "AttributeError"
    ELSE IF palette_exhausted(plot_frame(frame, s), s) THEN "IndexError"
    ELSE "drawn"

\* the traces added to fig by the time create_boxplot ends
boxplot_traces(frame, s) ==
    LET plot_df == plot_frame(frame, s)
    IN  IF plot_df = <<>> THEN <<>>
        ELSE IF s.x_column = NoColumn THEN single_traces(plot_df, s)
        ELSE IF s.color_column = NoColumn THEN group_traces(plot_df, s)
        ELSE IF s.color_column = s.x_column \/ palette_exhausted(plot_df, s) THEN <<>>
        ELSE color_traces(plot_df, s)

create_boxplot(frame, s) ==
    [outcome |-> boxplot_outcome(frame, s), traces |-> boxplot_traces(frame, s)]

-----------------------------------------------------------------------------
(* The statistics.  The record of describe() keeps count, mean, min, the   *)
(* quartiles and max; std is not represented.                              *)

describe(data) ==
    LET present == SelectSeq(data, LAMBDA p : p.val # NaN)
    IN  IF present = <<>>
        THEN [count |-> 0]
        ELSE [count |-> Len(present),
              mean |-> mean(present),
              min |-> SetMin(Range(values(present))),
              q25 |-> quantile(present, 1),
              q50 |-> quantile(present, 2),
              q75 |-> quantile(present, 3),
              max |-> SetMax(Range(values(present)))]

\* the keys of df.groupby(x_column) and of value_counts().sort_index():
\* the distinct values of the column in ascending order, missing ones left out
group_keys(frame, column) ==
    sorted({frame[k][column] : k \in DOMAIN frame} \ {NaN})

show_statistics(frame, s) ==
    IF s.x_column = NoColumn
    THEN [stats |-> describe(series(frame, s.y_column))]
    ELSE LET keys == group_keys(frame, s.x_column)
             rows(i) == SelectSeq(frame, LAMBDA r : r[s.x_column] = keys[i])
         IN  [grouped_stats |->
                  [i \in DOMAIN keys |->
                      [key |-> keys[i], stats |-> describe(series(rows(i), s.y_column))]],
              group_counts |->
                  [i \in DOMAIN keys |-> [key |-> keys[i], count |-> Len(rows(i))]]]

NoFigure == [outcome |-> "none", traces |-> <<>>]
NoStatistics == [count |-> "none"]

\* lines 97-111: the steps invoked once the chain has been evaluated
render_calls(filtered, s) ==
    IF filtered = <<>> THEN <<>>
    ELSE IF boxplot_outcome(filtered, s) \in {"drawn", "no_data"}
    THEN <<"create_boxplot", "show_statistics">>
    ELSE <<"create_boxplot">>

render_view(filtered, s) ==
    IF filtered = <<>> THEN "warning"
    ELSE IF boxplot_outcome(filtered, s) = "drawn" THEN "plot"
    ELSE IF boxplot_outcome(filtered, s) = "no_data" THEN "no_data"
    ELSE "exception"

-----------------------------------------------------------------------------
(* The script runs *)

\* the first script run on a sheet.  Without a numeric column it stops at the
\* error and the session keys are never created: active_filters and
\* filter_counter then stand for absent keys.
Init ==
    /\ df \in Tables
    /\ initialized = ~no_numeric_columns
    /\ active_filters = <<>>
    /\ filter_counter = 0
    /\ filtered_df = df
    /\ view = IF no_numeric_columns THEN "error" ELSE "info"
    /\ event = [op |-> "init"]
    /\ created = [c \in {} |-> <<>>]
    /\ no_column_info = (~no_numeric_columns /\ available_columns(<<>>) = {})
    /\ calls = <<>>
    /\ fig = NoFigure
    /\ stats = NoStatistics

\* a run that ends without the apply button: display_data_info(df, df)
NoApply ==
    /\ initialized
    /\ filtered_df' = df
    /\ view' = "info"
    /\ no_column_info' = (available_columns(active_filters') = {})
    /\ calls' = <<>>
    /\ UNCHANGED <<df, initialized, fig, stats>>

\* a script run without any gesture
Rerun ==
    /\ event' = [op |-> "rerun"]
    /\ IF no_numeric_columns
       THEN /\ view' = "error"
            /\ UNCHANGED <<df, active_filters, filter_counter, filtered_df, created,
                           initialized, no_column_info, calls, fig, stats>>
       ELSE /\ active_filters' = untouched_controls(active_filters)
            /\ UNCHANGED <<filter_counter, created>>
            /\ NoApply

\* the remove button of filter i: pop(i), st.rerun()
RemoveFilter(i) ==
    /\ i \in DOMAIN active_filters
    /\ active_filters' = untouched_controls(pop(active_filters, i))
    /\ event' = [op |-> "remove", index |-> i]
    /\ UNCHANGED <<filter_counter, created>>
    /\ NoApply

\* the add button with column selected: add_new_filter, counter, st.rerun()
AddFilter(column) ==
    /\ filter_counter < MaxFilterCounter
    /\ column \in available_columns(active_filters)
    /\ active_filters' = untouched_controls(add_new_filter(df, active_filters, column))
    /\ filter_counter' = filter_counter + 1
    /\ event' = [op |-> "add", column |-> column]
    /\ created' = [c \in DOMAIN created \cup {column} |->
                      IF c = column
                      THEN Domain(new_filter_info(df, active_filters, column))
                      ELSE created[c]]
    /\ NoApply

\* the select-all button of filter i: the controls before i are drawn, the
\* selection is replaced, st.rerun()
SelectAll(i) ==
    /\ i \in DOMAIN active_filters
    /\ active_filters[i].type = "categorical"
    /\ active_filters' = untouched_controls(select_all(controls_before(active_filters, i), i))
    /\ event' = [op |-> "select_all", index |-> i]
    /\ UNCHANGED <<filter_counter, created>>
    /\ NoApply

DeselectAll(i) ==
    /\ i \in DOMAIN active_filters
    /\ active_filters[i].type = "categorical"
    /\ active_filters' = untouched_controls(deselect_all(controls_before(active_filters, i), i))
    /\ event' = [op |-> "deselect_all", index |-> i]
    /\ UNCHANGED <<filter_counter, created>>
    /\ NoApply

\* one checkbox of filter i changes state
ToggleCheckbox(i) ==
    /\ i \in DOMAIN active_filters
    /\ active_filters[i].type = "categorical"
    /\ \E value \in Range(active_filters[i].all_values) :
         LET old == widget_default(active_filters[i])
             new == IF value \in old THEN old \ {value} ELSE old \cup {value}
         IN  active_filters' =
                 setup_filter_controls(active_filters,
                                       [defaults(active_filters) EXCEPT ![i] = new])
    /\ event' = [op |-> "checkbox", index |-> i]
    /\ UNCHANGED <<filter_counter, created>>
    /\ NoApply

\* the slider of filter i is moved; a slider whose bounds are NaN offers no
\* position to move to
MoveSlider(i) ==
    /\ i \in DOMAIN active_filters
    /\ active_filters[i].type = "numeric"
    /\ FloatNe(active_filters[i].min_val, active_filters[i].max_val)
    /\ \E range \in slider_values(active_filters[i]) :
         /\ range # active_filters[i].selected_range
         /\ active_filters' =
                setup_filter_controls(active_filters,
                                      [defaults(active_filters) EXCEPT ![i] = range])
    /\ event' = [op |-> "slider", index |-> i]
    /\ UNCHANGED <<filter_counter, created>>
    /\ NoApply

\* the apply button: the controls are drawn and the chain is evaluated
ApplyButton ==
    /\ initialized
    /\ active_filters' = untouched_controls(active_filters)
    /\ filtered_df' = apply_filters_to_data(df, active_filters')
    /\ no_column_info' = (available_columns(active_filters') = {})
    /\ UNCHANGED <<df, filter_counter, created, initialized>>

\* Spec follows the session and keeps which steps the run invoked while
\* the graph controls hold s
Apply ==
    /\ ApplyButton
    /\ event' = [op |-> "apply"]
    /\ \E s \in Settings :
         /\ calls' = render_calls(filtered_df', s)
         /\ view' = render_view(filtered_df', s)
    /\ UNCHANGED <<fig, stats>>

\* PlotSpec keeps what the run drew as well
ApplyAndDraw ==
    /\ ApplyButton
    /\ \E s \in Settings :
         /\ event' = [op |-> "apply", settings |-> s]
         /\ calls' = render_calls(filtered_df', s)
         /\ view' = render_view(filtered_df', s)
         /\ fig' = IF filtered_df' # <<>> THEN create_boxplot(filtered_df', s) ELSE NoFigure
         /\ stats' = IF isin("show_statistics", calls')
                     THEN show_statistics(filtered_df', s)
                     ELSE NoStatistics

Next ==
    \/ \E i \in DOMAIN active_filters : RemoveFilter(i)
    \/ \E column \in Range(Columns) : AddFilter(column)
    \/ \E i \in DOMAIN active_filters : SelectAll(i)
    \/ \E i \in DOMAIN active_filters : DeselectAll(i)
    \/ \E i \in DOMAIN active_filters : ToggleCheckbox(i)
    \/ \E i \in DOMAIN active_filters : MoveSlider(i)
    \/ Apply
    \/ Rerun

Spec == Init /\ [][Next]_vars

-----------------------------------------------------------------------------
(* The drawing of one sheet: the session has no filter and the apply       *)
(* button is pressed under every setting of the graph controls.            *)

\* the samples 1, 2, 3, 4, 5, 100
Sheet1 == << Row(0, 1, 1, 1), Row(1, 1, 1, 2), Row(2, 1, 1, 3),
            Row(3, 1, 1, 4), Row(4, 1, 1, 5), Row(5, 1, 1, 100) >>
\* group 1 has equal quartiles and one sample apart, group 2 is constant
Sheet2 == << Row(0, 1, 1, 1), Row(1, 1, 2, 1), Row(2, 1, 1, 1), Row(3, 1, 2, 1),
            Row(4, 1, 1, 2), Row(5, 2, 1, 2), Row(6, 2, 2, 2), Row(7, 2, 1, 2),
            Row(8, 2, 2, 2) >>
\* group 2 has no value, one row has no group
Sheet3 == << Row(0, 1, 1, 1), Row(1, 1, 2, 3), Row(2, 2, 1, NaN), Row(3, NaN, 2, 2) >>
\* more colours in h than EXTENDED_COLORS has entries
Sheet4 == [i \in 1 .. Len(EXTENDED_COLORS) + 1 |-> Row(i - 1, 1 + (i % 2), i, i % 3)]
\* the first group has no outlier, the second has one
Sheet5 == << Row(0, 1, 1, 1), Row(1, 1, 1, 2), Row(2, 1, 2, 3), Row(3, 2, 2, 1),
            Row(4, 2, 2, 1), Row(5, 2, 2, 1), Row(6, 2, 2, 1), Row(7, 2, 2, 9) >>
\* a single row
Sheet6 == << Row(0, 2, 1, 3) >>

Sheets == {Sheet1, Sheet2, Sheet3, Sheet4, Sheet5, Sheet6, Table1, Table3}

PlotInit ==
    /\ df \in Sheets
    /\ initialized = ~no_numeric_columns
    /\ active_filters = <<>>
    /\ filter_counter = 0
    /\ filtered_df = df
    /\ view = "info"
    /\ event = [op |-> "init"]
    /\ created = [c \in {} |-> <<>>]
    /\ no_column_info = FALSE
    /\ calls = <<>>
    /\ fig = NoFigure
    /\ stats = NoStatistics

PlotNext == ApplyAndDraw

PlotSpec == PlotInit /\ [][PlotNext]_vars

-----------------------------------------------------------------------------
(* Vocabulary of the properties.  These state what a filter lets through  *)
(* row by row, without the loop of the evaluators.                        *)

InClosed(x, lo, hi) == x # NaN /\ lo # NaN /\ hi # NaN /\ lo <= x /\ x <= hi

Passes(filter_info, r) ==
    IF filter_info.type = "categorical"
    THEN r[filter_info.column] \in Range(filter_info.selected_values)
    ELSE InClosed(r[filter_info.column],
                  filter_info.selected_range[1], filter_info.selected_range[2])

Surviving(frame, filters) ==
    {r \in Range(frame) : \A k \in DOMAIN filters : Passes(filters[k], r)}

VisibleValues(frame, filters, column) ==
    {r[column] : r \in Surviving(frame, filters)} \ {NaN}

Ascending(s) == \A j, k \in DOMAIN s : j < k => s[j] < s[k]

IsCategorical(k) == active_filters[k].type = "categorical"
IsNumeric(k) == active_filters[k].type = "numeric"

Narrowed(k) ==
    IF IsCategorical(k)
    THEN Range(active_filters[k].selected_values) # Range(active_filters[k].all_values)
    ELSE active_filters[k].selected_range
             # <<active_filters[k].min_val, active_filters[k].max_val>>

-----------------------------------------------------------------------------
(* C1: a filter added while the chain is F gets the domain of its column  *)
(* over the rows that pass every filter of F (sorted distinct non-missing *)
(* values, or their min and max), is placed last, and starts with the     *)
(* whole domain selected.                                                 *)
C1_DomainFromNarrowedData ==
    [][filter_counter' = filter_counter + 1 =>
        /\ Len(active_filters') = Len(active_filters) + 1
        /\ LET f == active_filters'[Len(active_filters')]
               visible == VisibleValues(df, active_filters, f.column)
           IN  IF dtype(f.column) \in {"object", "category"}
               THEN /\ f.type = "categorical"
                    /\ Range(f.all_values) = visible
                    /\ Ascending(f.all_values)
                    /\ f.selected_values = f.all_values
               ELSE /\ f.type = "numeric"
                    /\ IF visible = {}
                       THEN f.min_val = NaN /\ f.max_val = NaN
                       ELSE /\ f.min_val \in visible /\ f.max_val \in visible
                            /\ \A x \in visible : f.min_val <= x /\ x <= f.max_val
                    /\ f.selected_range = <<f.min_val, f.max_val>>]_vars

\* a filter has just been added behind a narrowed filter and sees fewer
\* values than the raw column holds
C1_Witness ==
    /\ event.op = "add"
    /\ Len(active_filters) >= 2
    /\ LET f == active_filters[Len(active_filters)]
       IN  /\ f.type = "categorical"
           /\ f.all_values # <<>>
           /\ Len(f.all_values) < Len(unique_values(df, f.column))

(* C2: removing the filter at index i leaves the column and the domain of *)
(* every remaining filter as they were, those behind i included.          *)
C2_RemoveKeepsDomains ==
    [][Len(active_filters') = Len(active_filters) - 1 =>
        \E i \in DOMAIN active_filters :
            \A k \in DOMAIN active_filters' :
                LET old == IF k < i THEN active_filters[k] ELSE active_filters[k + 1]
                IN  /\ active_filters'[k].column = old.column
                    /\ Domain(active_filters'[k]) = Domain(old)]_vars

\* a filter was removed and a filter behind it keeps a domain that differs
\* from the one its column has behind the filters now before it
C2_Witness ==
    /\ event.op = "remove"
    /\ \E k \in DOMAIN active_filters :
           /\ event.index <= k
           /\ Domain(active_filters[k])
                  # Domain(new_filter_info(df, SubSeq(active_filters, 1, k - 1),
                                           active_filters[k].column))

(* C3: in every reachable state, each filter's domain is the one it was   *)
(* created with, whatever selections were made since.                     *)
C3_DomainFrozen ==
    \A k \in DOMAIN active_filters :
        /\ active_filters[k].column \in DOMAIN created
        /\ Domain(active_filters[k]) = created[active_filters[k].column]

\* a selection gesture has just narrowed a filter, and both kinds of filter
\* are in the chain with a narrowed selection
C3_Witness ==
    /\ event.op \in {"checkbox", "slider", "deselect_all"}
    /\ \E j, k \in DOMAIN active_filters :
           /\ IsCategorical(j) /\ Narrowed(j)
           /\ IsNumeric(k) /\ Narrowed(k)

(* C4: no column is the target of two filters of the chain.               *)
C4_OneFilterPerColumn ==
    \A j, k \in DOMAIN active_filters :
        j # k => active_filters[j].column # active_filters[k].column

\* a column was filtered, removed and a filter added again
C4_Witness ==
    /\ event.op = "add"
    /\ Len(active_filters) >= 2
    /\ filter_counter > Len(active_filters)

(* C5: each categorical filter's selected_values holds only values of its *)
(* own all_values.                                                        *)
C5_SelectedWithinAllValues ==
    \A k \in DOMAIN active_filters :
        IsCategorical(k) =>
            Range(active_filters[k].selected_values) \subseteq Range(active_filters[k].all_values)

\* a checkbox has just been ticked again in a filter created behind a
\* narrowed one
C5_Witness ==
    /\ event.op \in {"checkbox", "select_all"}
    /\ event.index >= 2
    /\ IsCategorical(event.index)
    /\ active_filters[event.index].selected_values # <<>>
    /\ Len(active_filters[event.index].all_values)
           < Len(unique_values(df, active_filters[event.index].column))

(* C6: each numeric filter's selected_range (lo, hi) satisfies            *)
(* min_val <= lo <= hi <= max_val, also for a filter created while the    *)
(* filters before it leave no rows.                                       *)
C6_RangeWithinBounds ==
    \A k \in DOMAIN active_filters :
        IsNumeric(k) =>
            /\ Le(active_filters[k].min_val, active_filters[k].selected_range[1])
            /\ Le(active_filters[k].selected_range[1], active_filters[k].selected_range[2])
            /\ Le(active_filters[k].selected_range[2], active_filters[k].max_val)

(* C7: a chain holding a categorical filter with no selected value        *)
(* evaluates to zero rows, wherever the filter stands.                    *)
HasEmptySelection ==
    \E k \in DOMAIN active_filters :
        IsCategorical(k) /\ active_filters[k].selected_values = <<>>

C7_EmptySelectionYieldsNoRows ==
    HasEmptySelection =>
        /\ apply_filters_to_data(df, active_filters) = <<>>
        /\ apply_current_filters(df, active_filters) = <<>>
        /\ event.op = "apply" => filtered_df = <<>> /\ view = "warning"

\* the chain was applied with the empty selection in first place and a
\* filter behind it that lets rows through
C7_Witness ==
    /\ event.op = "apply"
    /\ Len(active_filters) >= 2
    /\ IsCategorical(1) /\ active_filters[1].selected_values = <<>>
    /\ Surviving(df, SubSeq(active_filters, 2, Len(active_filters))) # {}

(* C8: a numeric filter with range (lo, hi) keeps, of the rows the        *)
(* filters before it let through, exactly those whose value v has         *)
(* lo <= v <= hi, in their order.                                         *)
C8_NumericClosedInterval ==
    \A k \in DOMAIN active_filters :
        IsNumeric(k) =>
            LET prev == apply_filters_to_data(df, SubSeq(active_filters, 1, k - 1))
                cur == apply_filters_to_data(df, SubSeq(active_filters, 1, k))
                f == active_filters[k]
            IN  /\ Range(cur) = {r \in Range(prev) :
                                    /\ r[f.column] # NaN
                                    /\ f.selected_range[1] # NaN
                                    /\ f.selected_range[2] # NaN
                                    /\ f.selected_range[1] <= r[f.column]
                                    /\ r[f.column] <= f.selected_range[2]}
                /\ \A a, b \in DOMAIN cur : a < b => cur[a].idx < cur[b].idx

\* a numeric filter keeps a row on each bound and drops a row
C8_Witness ==
    \E k \in DOMAIN active_filters :
        /\ IsNumeric(k)
        /\ LET prev == apply_filters_to_data(df, SubSeq(active_filters, 1, k - 1))
               cur == apply_filters_to_data(df, SubSeq(active_filters, 1, k))
               f == active_filters[k]
           IN  /\ f.selected_range[1] < f.selected_range[2]
               /\ \E r \in Range(cur) : r[f.column] = f.selected_range[1]
               /\ \E r \in Range(cur) : r[f.column] = f.selected_range[2]
               /\ \E r \in Range(prev) : r[f.column] # NaN /\ r \notin Range(cur)

(* C9: evaluating the chain on its own result returns that result.        *)
C9_EvaluateIdempotent ==
    apply_filters_to_data(apply_filters_to_data(df, active_filters), active_filters)
        = apply_filters_to_data(df, active_filters)

\* two filters that together keep some rows and drop some
C9_Witness ==
    /\ Len(active_filters) >= 2
    /\ apply_filters_to_data(df, active_filters) # <<>>
    /\ apply_filters_to_data(df, active_filters) # df
    /\ \E k \in DOMAIN active_filters : IsNumeric(k) /\ Narrowed(k)

(* C10: a chain holding only a numeric filter whose range is the full     *)
(* (min, max) of its column returns every row of the dataset, rows with a *)
(* missing value in that column included.                                 *)
C10_FullRangeIsNoOp ==
    ( /\ Len(active_filters) = 1
      /\ IsNumeric(1)
      /\ active_filters[1].selected_range
             = <<series_min(df, active_filters[1].column),
                 series_max(df, active_filters[1].column)>> )
        => apply_filters_to_data(df, active_filters) = df

-----------------------------------------------------------------------------
(* Vocabulary of the properties of the drawing.  The percentile is stated *)
(* by rank, without sorting: Kth is the k-th smallest sample, and the     *)
(* percentile at quarters/4 weighs the two samples around position        *)
(* (n - 1) * quarters / 4.  Percentile4 is four times the percentile.     *)

Applied == event.op = "apply"
Drawn == Applied /\ fig.outcome = "drawn"

Kth(vs, k) ==
    CHOOSE x \in Range(vs) :
        /\ Cardinality({j \in DOMAIN vs : vs[j] < x}) < k
        /\ Cardinality({j \in DOMAIN vs : vs[j] <= x}) >= k

Percentile4(vs, quarters) ==
    LET h == (Len(vs) - 1) * quarters
        lo == h \div 4
        w == h % 4
        hi == IF lo + 2 > Len(vs) THEN Len(vs) ELSE lo + 2
    IN  (4 - w) * Kth(vs, lo + 1) + w * Kth(vs, hi)

OutsideFence(v, vs) ==
    LET q1 == Percentile4(vs, 1)
        q3 == Percentile4(vs, 3)
    IN  \/ 8 * v < 2 * q1 - 3 * (q3 - q1)
        \/ 8 * v > 2 * q3 + 3 * (q3 - q1)

PointTraces == SelectSeq(fig.traces, LAMBDA t : t.role \in {"normal", "outliers"})

PlottedRows == plot_frame(filtered_df, event.settings)

\* the samples a point trace was classified in: its group, and its colour
\* when a colour column is selected, or the whole column without a group
OwnSamples(t) ==
    LET own == SelectSeq(PlottedRows,
                   LAMBDA r : /\ event.settings.x_column # NoColumn
                                     => r[event.settings.x_column] = t.x
                              /\ (event.settings.x_column # NoColumn
                                     /\ event.settings.color_column # NoColumn)
                                     => r[event.settings.color_column] = t.legendgroup[1])
    IN  [k \in DOMAIN own |-> own[k][event.settings.y_column]]

NoDuplicates(seq) == \A i, j \in DOMAIN seq : i # j => seq[i] # seq[j]

(* C11: with the points shown, every plotted row is in exactly one point  *)
(* trace, once, with its own value: the normal and the outlier points of  *)
(* every sample set are disjoint and make up the sample set.              *)
C11_ClassifiedExactlyOnce ==
    (Drawn /\ event.settings.show_points) =>
        LET points == flatten([k \in DOMAIN PointTraces |-> PointTraces[k].y])
        IN  /\ NoDuplicates([k \in DOMAIN points |-> points[k].idx])
            /\ Len(points) = Len(PlottedRows)
            /\ \A r \in Range(PlottedRows) :
                   \E t \in Range(PointTraces) :
                       /\ [idx |-> r.idx, val |-> r[event.settings.y_column]] \in Range(t.y)
                       /\ event.settings.x_column # NoColumn
                              => t.x = r[event.settings.x_column]

\* a drawing by group and colour with normal points and an outlier
C11_Witness ==
    /\ Drawn
    /\ event.settings.show_points
    /\ event.settings.color_column # NoColumn
    /\ \E t \in Range(PointTraces) : t.role = "outliers"
    /\ \E t \in Range(PointTraces) : t.role = "normal" /\ Len(t.y) >= 2

(* C12: a sample set whose quartiles are equal yields no outlier point,   *)
(* even if some samples differ from the quartile.                         *)
C12_DegenerateHasNoOutliers ==
    (Drawn /\ event.settings.show_points /\ event.settings.color_column = NoColumn) =>
        \A t \in Range(PointTraces) :
            t.role = "outliers" =>
                Percentile4(OwnSamples(t), 1) # Percentile4(OwnSamples(t), 3)

(* C13: in the single box a sample is an outlier exactly when it lies     *)
(* strictly outside Q1 - 1.5 IQR .. Q3 + 1.5 IQR with interpolated        *)
(* quartiles; for 1, 2, 3, 4, 5, 100 this gives Q1 = 2.25, Q3 = 4.75,     *)
(* fence (-1.5, 8.5), outlier 100 and the other five normal.              *)
C13_TukeyFence ==
    (Drawn /\ event.settings.show_points /\ event.settings.x_column = NoColumn) =>
        /\ \A t \in Range(PointTraces) : \A k \in DOMAIN t.y :
               t.role = "outliers" <=> OutsideFence(t.y[k].val, OwnSamples(t))
        /\ df = Sheet1 =>
               LET split == iqr_outliers(series(PlottedRows, event.settings.y_column))
               IN  /\ split.Q1 = 9 /\ split.Q3 = 19
                   /\ split.lower_bound = -12 /\ split.upper_bound = 68
                   /\ \E t \in Range(PointTraces) :
                          t.role = "normal" /\ values(t.y) = <<1, 2, 3, 4, 5>>
                   /\ \E t \in Range(PointTraces) :
                          t.role = "outliers" /\ values(t.y) = <<100>>

\* the single box of the six samples has been drawn with its points
C13_Witness ==
    /\ Drawn
    /\ df = Sheet1
    /\ event.settings.show_points
    /\ event.settings.x_column = NoColumn
    /\ Len(PointTraces) = 2

(* C14: with a group column, a point is an outlier exactly when it lies   *)
(* outside the fence of the samples of its own group, or of its own       *)
(* colour within the group when a colour column is selected.              *)
C14_FencePerGroup ==
    (Drawn /\ event.settings.show_points /\ event.settings.x_column # NoColumn) =>
        \A t \in Range(PointTraces) : \A k \in DOMAIN t.y :
            t.role = "outliers" <=> OutsideFence(t.y[k].val, OwnSamples(t))

\* a point is an outlier of its group although it lies inside the fence of
\* the whole column
C14_Witness ==
    /\ Drawn
    /\ event.settings.show_points
    /\ event.settings.x_column # NoColumn
    /\ event.settings.color_column = NoColumn
    /\ \E t \in Range(PointTraces) :
           /\ t.role = "outliers"
           /\ ~OutsideFence(t.y[1].val,
                            [k \in DOMAIN PlottedRows |->
                                PlottedRows[k][event.settings.y_column]])

(* C15: the group keys of the grouped statistics table are, position by   *)
(* position, the groups create_boxplot uses.                              *)
C15_SameGroupKeys ==
    (Drawn /\ event.settings.x_column # NoColumn /\ isin("show_statistics", calls)) =>
        [i \in DOMAIN stats.grouped_stats |-> stats.grouped_stats[i].key]
            = plot_groups(PlottedRows, event.settings)

(* C16: with more distinct colour values than palette entries the drawing *)
(* completes and the i-th colour value in ascending order gets palette    *)
(* entry i mod the palette length.                                        *)
C16_PaletteCycles ==
    LET color_values == {PlottedRows[k][event.settings.color_column] :
                             k \in DOMAIN PlottedRows}
    IN  ( /\ Applied
          /\ event.settings.x_column # NoColumn
          /\ event.settings.color_column # NoColumn
          /\ event.settings.color_column # event.settings.x_column
          /\ Cardinality(color_values) > Len(EXTENDED_COLORS) ) =>
            /\ fig.outcome = "drawn"
            /\ \A i \in DOMAIN sorted(color_values) :
                   \E t \in Range(fig.traces) :
                       /\ t.role = "box"
                       /\ t.legendgroup = <<sorted(color_values)[i]>>
                       /\ t.color = EXTENDED_COLORS[((i - 1) % Len(EXTENDED_COLORS)) + 1]

(* C17: without a group column and with the mean shown, create_boxplot    *)
(* emits one mean marker at the mean of the value column and completes,   *)
(* and the statistics step runs.                                          *)
C17_SingleBoxMean ==
    ( /\ Applied
      /\ event.settings.x_column = NoColumn
      /\ event.settings.show_mean
      /\ PlottedRows # <<>> ) =>
        /\ fig.outcome = "drawn"
        /\ Len(SelectSeq(fig.traces, LAMBDA t : t.role = "mean")) = 1
        /\ \A t \in Range(fig.traces) :
               t.role = "mean" =>
                   t.y = <<mean(series(PlottedRows, event.settings.y_column))>>
        /\ calls = <<"create_boxplot", "show_statistics">>

(* C18: an apply run whose chain yields no row invokes neither            *)
(* create_boxplot nor show_statistics and shows the warning; one that     *)
(* yields a row invokes both.                                             *)
C18_EmptyResultSkipsBoth ==
    Applied =>
        IF filtered_df = <<>>
        THEN calls = <<>> /\ view = "warning"
        ELSE isin("create_boxplot", calls) /\ isin("show_statistics", calls)

(* C19: on a sheet without a numeric column the run stops at the error:   *)
(* the session is not initialised, nothing is drawn and no filter exists. *)
C19_NoNumericColumnStops ==
    (\A c \in Range(Columns) : dtype(c) \notin {"int64", "float64"}) =>
        /\ ~initialized
        /\ view = "error"
        /\ active_filters = <<>> /\ filter_counter = 0
        /\ calls = <<>> /\ ~no_column_info
        /\ filtered_df = df

\* the script has run again on the sheet without a numeric column
C19_Witness ==
    /\ \A c \in Range(Columns) : dtype(c) \notin {"int64", "float64"}
    /\ event.op = "rerun"

(* C20: while every filterable column has a filter, the note is shown and *)
(* no run adds a filter or moves the filter counter.                      *)
AllFiltered ==
    /\ initialized
    /\ \A c \in Range(Columns) :
           dtype(c) \in {"object", "category", "int64", "float64"}
               => \E k \in DOMAIN active_filters : active_filters[k].column = c

C20_NoEligibleColumn ==
    [][AllFiltered =>
          /\ no_column_info
          /\ filter_counter' = filter_counter
          /\ Len(active_filters') <= Len(active_filters)
          /\ \A k \in DOMAIN active_filters' :
                 \E j \in DOMAIN active_filters : active_filters'[k] = active_filters[j]
                     \/ active_filters'[k].column = active_filters[j].column]_vars

\* every filterable column is filtered and the counter could still grow
C20_Witness ==
    /\ AllFiltered
    /\ no_column_info
    /\ filter_counter < MaxFilterCounter
    /\ event.op = "add"

-----------------------------------------------------------------------------
(* Vocabulary of the properties of the chain as a whole *)

\* a numeric filter whose bounds are one and the same number
SinglePoint(filter_info) ==
    /\ filter_info.type = "numeric"
    /\ filter_info.min_val # NaN
    /\ filter_info.min_val = filter_info.max_val

ColumnsOf(filters) == [k \in DOMAIN filters |-> filters[k].column]

(* C21: a numeric filter added on a column whose visible values are all   *)
(* one number m gets the range (m, m); no run changes that range while    *)
(* the filter is in the chain, and the filter keeps, of the rows the      *)
(* filters before it let through, exactly those whose value is m.         *)
C21_SinglePointRange ==
    [][/\ filter_counter' = filter_counter + 1 =>
             LET f == active_filters'[Len(active_filters')]
                 visible == VisibleValues(df, active_filters, f.column)
             IN  (dtype(f.column) \in {"int64", "float64"} /\ Cardinality(visible) = 1)
                     => \E m \in visible :
                            /\ f.min_val = m /\ f.max_val = m
                            /\ f.selected_range = <<m, m>>
       /\ \A k \in DOMAIN active_filters :
             SinglePoint(active_filters[k]) =>
                 LET f == active_filters[k]
                     m == f.min_val
                     prev == apply_filters_to_data(df, SubSeq(active_filters, 1, k - 1))
                     cur == apply_filters_to_data(df, SubSeq(active_filters, 1, k))
                 IN  /\ f.selected_range = <<m, m>>
                     /\ Range(cur) = {r \in Range(prev) : r[f.column] = m}
                     /\ \A j \in DOMAIN active_filters' :
                            active_filters'[j].column = f.column
                                => active_filters'[j].selected_range = <<m, m>>]_vars

\* the chain was applied with a single-point filter behind a filter, it let
\* a row through and held back a row with another value
C21_Witness ==
    /\ event.op = "apply"
    /\ filtered_df # <<>>
    /\ \E k \in DOMAIN active_filters :
           /\ k >= 2
           /\ SinglePoint(active_filters[k])
           /\ \E r \in Range(apply_filters_to_data(df, SubSeq(active_filters, 1, k - 1))) :
                  r[active_filters[k].column] \notin {NaN, active_filters[k].min_val}

(* C22: the chain starts empty; an added filter is placed last and the    *)
(* filters before it stay as they were, in their order; the remove button *)
(* of filter i takes out that filter alone and the others keep their      *)
(* order; every other run leaves the length of the chain and the order of *)
(* its filters as they were.                                              *)
C22_AppendRemoveInPlace ==
    [][/\ event.op = "init" => active_filters = <<>>
       /\ IF event'.op = "add"
          THEN /\ Len(active_filters') = Len(active_filters) + 1
               /\ SubSeq(active_filters', 1, Len(active_filters)) = active_filters
               /\ active_filters'[Len(active_filters')].column = event'.column
          ELSE IF event'.op = "remove"
          THEN /\ Len(active_filters') = Len(active_filters) - 1
               /\ \A k \in DOMAIN active_filters' :
                      active_filters'[k] = IF k < event'.index
                                           THEN active_filters[k]
                                           ELSE active_filters[k + 1]
          ELSE /\ Len(active_filters') = Len(active_filters)
               /\ ColumnsOf(active_filters') = ColumnsOf(active_filters)
               /\ \A k \in DOMAIN active_filters :
                      Domain(active_filters'[k]) = Domain(active_filters[k])]_vars

\* the middle one of three filters has just been removed
C22_Witness ==
    /\ event.op = "remove"
    /\ event.index = 2
    /\ Len(active_filters) = 2
    /\ filter_counter >= 3

(* C23: in the boxes by group without a colour column, of the traces of   *)
(* each role (normal points, outlier points, mean marker) the first one   *)
(* emitted has its legend flag on and the later ones have it off, also    *)
(* when the first group has no trace of that role.                        *)
C23_LegendOnFirstOfRole ==
    ( /\ Drawn
      /\ event.settings.x_column # NoColumn
      /\ event.settings.color_column = NoColumn ) =>
        \A role \in {"normal", "outliers", "mean"} :
            LET of_role == SelectSeq(fig.traces, LAMBDA t : t.role = role)
            IN  \A k \in DOMAIN of_role : of_role[k].showlegend = (k = 1)

(* C24: the evaluator that reads the session chain and the evaluator that *)
(* is given the chain return the same rows in the same order, for the     *)
(* dataset, for the chain and for every part of the chain.                *)
C24_EvaluatorsAgree ==
    \A a, b \in 1 .. Len(active_filters) + 1 :
        apply_current_filters(df, SubSeq(active_filters, a, b - 1))
            = apply_filters_to_data(df, SubSeq(active_filters, a, b - 1))

\* a chain of both kinds of filter, each narrowed, that keeps a row on the
\* upper bound of the range and drops a row
C24_Witness ==
    /\ event.op = "apply"
    /\ filtered_df # <<>> /\ filtered_df # df
    /\ filtered_df = apply_current_filters(df, active_filters)
    /\ \E j, k \in DOMAIN active_filters :
           /\ IsCategorical(j) /\ Narrowed(j)
           /\ IsNumeric(k) /\ Narrowed(k)
           /\ \E r \in Range(filtered_df) :
                  r[active_filters[k].column] = active_filters[k].selected_range[2]

(* C25: a categorical filter added while the chain evaluates to zero rows *)
(* gets an empty all_values and an empty selected_values; and as long as  *)
(* a filter without any value in all_values is in the chain, no run gives *)
(* it a selected value and the chain evaluates to zero rows, whatever     *)
(* happens to the other filters.                                          *)
C25_DeadFilterStaysDead ==
    [][/\ ( /\ event'.op = "add"
            /\ dtype(event'.column) \in {"object", "category"}
            /\ Surviving(df, active_filters) = {} ) =>
             /\ active_filters'[Len(active_filters')].all_values = <<>>
             /\ active_filters'[Len(active_filters')].selected_values = <<>>
       /\ \A k \in DOMAIN active_filters :
             (IsCategorical(k) /\ active_filters[k].all_values = <<>>) =>
                 /\ active_filters[k].selected_values = <<>>
                 /\ apply_filters_to_data(df, active_filters) = <<>>
                 /\ apply_current_filters(df, active_filters) = <<>>
                 /\ \A j \in DOMAIN active_filters' :
                        active_filters'[j].column = active_filters[k].column =>
                            /\ active_filters'[j].all_values = <<>>
                            /\ active_filters'[j].selected_values = <<>>
       /\ event'.op = "apply" =>
             ((\E j \in DOMAIN active_filters' :
                   /\ active_filters'[j].type = "categorical"
                   /\ active_filters'[j].all_values = <<>>)
                 => filtered_df' = <<>>)]_vars

\* the filter created over zero rows is the only one left after the others
\* were removed, and the chain was applied
C25_Witness ==
    /\ event.op = "apply"
    /\ Len(active_filters) = 1
    /\ IsCategorical(1)
    /\ active_filters[1].all_values = <<>>
    /\ unique_values(df, active_filters[1].column) # <<>>
    /\ filtered_df = <<>>

(* C26: the rows the chain returns are rows of the dataset, in the order  *)
(* of the dataset, and are the same for every ordering of its filters;    *)
(* the domains a filter is created with do depend on the order.           *)
Orderings(filters) ==
    {p \in [DOMAIN filters -> DOMAIN filters] :
        \A j, k \in DOMAIN filters : j # k => p[j] # p[k]}

C26_OrderDoesNotMatter ==
    /\ \A p \in Orderings(active_filters) :
           /\ apply_filters_to_data(df, [k \in DOMAIN active_filters |-> active_filters[p[k]]])
                  = apply_filters_to_data(df, active_filters)
           /\ apply_current_filters(df, [k \in DOMAIN active_filters |-> active_filters[p[k]]])
                  = apply_current_filters(df, active_filters)
    /\ Range(apply_filters_to_data(df, active_filters)) \subseteq Range(df)
    /\ LET kept == apply_filters_to_data(df, active_filters)
       IN  \A a, b \in DOMAIN kept : a < b => kept[a].idx < kept[b].idx

\* a chain of three filters keeps some rows and drops some, its last filter
\* alone would keep more, and the domain of a filter is not the one it would
\* have got had it been created first
C26_Witness ==
    /\ Len(active_filters) = 3
    /\ apply_filters_to_data(df, active_filters) # <<>>
    /\ Len(apply_filters_to_data(df, active_filters))
           < Len(apply_filters_to_data(df, <<active_filters[3]>>))
    /\ \E k \in DOMAIN active_filters :
           Domain(active_filters[k])
               # Domain(new_filter_info(df, <<>>, active_filters[k].column))

====
